---- MODULE Spec2Model ----
(***************************************************************************)
(* Model of rogneur (src/index.js): the pan/zoom state store of an image   *)
(* inside a positioned container.                                          *)
(*                                                                         *)
(* JavaScript numbers are modelled as exact rationals [n, d] in lowest     *)
(* terms with d > 0.  An object is modelled as a record; the identity of   *)
(* a position object (who created it, hence who else holds a reference to *)
(* it) is carried in its field id.  The argument of setState is a sequence *)
(* of [key, value] entries, in the enumeration order of the object's own   *)
(* keys (for .. in visits string keys in insertion order).                 *)
(***************************************************************************)
EXTENDS Integers, Sequences, FiniteSets, TLC

VARIABLES state, transform, loading, dragging, scroll, dom, pc, call, event, prev

vars == <<state, transform, loading, dragging, scroll, dom, pc, call, event, prev>>

(***************************************************************************)
(* Bounds of the model.                                                    *)
(***************************************************************************)
\* largest number of own keys carried by one setState argument
MaxKeys == 2
\* the farthest from the origin, in pixels, that the mouse proposes a position
MaxPan == 500

(***************************************************************************)
(* Rational arithmetic.                                                    *)
(***************************************************************************)
Abs(a) == IF a < 0 THEN -a ELSE a

RECURSIVE GCD(_, _)
GCD(a, b) == IF b = 0 THEN a ELSE GCD(b, a % b)

Rat(n, d) ==
  IF d = 1 THEN [n |-> n, d |-> 1]
  ELSE LET g == GCD(Abs(n), Abs(d))
           s == IF d < 0 THEN -1 ELSE 1
       IN [n |-> (s * n) \div g, d |-> (s * d) \div g]

Num(i) == [n |-> i, d |-> 1]
RAdd(a, b) == Rat(a.n * b.d + b.n * a.d, a.d * b.d)
RSub(a, b) == Rat(a.n * b.d - b.n * a.d, a.d * b.d)
RMul(a, b) == Rat(a.n * b.n, a.d * b.d)
RDiv(a, b) == Rat(a.n * b.d, a.d * b.n)
RLt(a, b) == a.n * b.d < b.n * a.d
RLe(a, b) == a.n * b.d <= b.n * a.d
\* Math.max and Math.min on two numbers
MathMax(a, b) == IF RLt(a, b) THEN b ELSE a
MathMin(a, b) == IF RLt(b, a) THEN b ELSE a

(***************************************************************************)
(* Values.                                                                 *)
(***************************************************************************)
\* the value of a property that an object does not have
Undefined == -1
\* the object literal {} stored as a size
EmptyObject == [width |-> Undefined, height |-> Undefined]
\* !v for a width or height: undefined and 0 are falsy
Falsy(v) == v = Undefined \/ v = 0

Rect(w, h) == [width |-> w, height |-> h]
\* rectangles reported by getBoundingClientRect for the image
ORects == {Rect(0, 1000), Rect(2000, 1000), Rect(1000, 2000)}
\* rectangles reported by getBoundingClientRect for the container
CRects == {Rect(0, 0), Rect(500, 500), Rect(1000, 500)}
ZoomReq == {Rat(1, 10), Num(2)}
\* position objects built by the caller
Pos(px, py) == [x |-> Num(px), y |-> Num(py), id |-> "caller"]
PosReq == {Pos(-1000, 1000), Pos(1000, -250)}

\* the value null
Null == [null |-> TRUE]
\* x and y of the mouse events delivered
MouseAt == {[x |-> 0, y |-> 0], [x |-> 500, y |-> 250]}
\* window.pageXOffset and window.pageYOffset
Scrolls == {[x |-> 0, y |-> 0], [x |-> 0, y |-> 250]}
\* computed position styles of image.parentElement and of its ancestors,
\* innermost first
Ancestries == {<<"static">>, <<"static", "static">>, <<"static", "relative">>,
               <<"absolute">>}

Keys == {"position", "zoom", "original", "container"}

ValuesOf(key) ==
  CASE key = "position" -> PosReq
    [] key = "zoom" -> ZoomReq
    [] key = "original" -> ORects
    [] key = "container" -> CRects

Entries == UNION {{[key |-> k, value |-> v] : v \in ValuesOf(k)} : k \in Keys}

\* the objects a caller passes to setState: at most MaxKeys own keys, in
\* any insertion order
NewStates ==
  {ns \in UNION {[1..n -> Entries] : n \in 0..MaxKeys} :
     \A i, j \in DOMAIN ns : i # j => ns[i].key # ns[j].key}

KeysOf(ns) == [i \in DOMAIN ns |-> ns[i].key]
\* newState.hasOwnProperty(key)
hasOwnProperty(ns, key) == \E i \in DOMAIN ns : ns[i].key = key

(***************************************************************************)
(* The functions of the instance.  st is the value of the closure          *)
(* variable state at the time of the call.                                 *)
(***************************************************************************)
\* clamp with the two bounds exchanged
clamp_swapped(value, min, max) == MathMax(MathMin(value, min), max)

clamp(value, min, max) == MathMax(MathMin(value, max), min)

\* a range whose max has the overflow subtracted
calcPosRange_overflowSubtracted(st, originalSize, containerSize) ==
  LET realSize == RMul(Num(originalSize), st.zoom)
      overflow == MathMax(RSub(realSize, Num(containerSize)), Num(0))
      lowestValue == RDiv(RSub(realSize, Num(originalSize)), Num(2))
      highestValue == RSub(RAdd(Num(containerSize), lowestValue), realSize)
  IN [min |-> RSub(lowestValue, overflow), max |-> RSub(highestValue, overflow)]

\* the min and max that calcPos hands to clamp
calcPosRange(st, originalSize, containerSize) ==
  LET realSize == RMul(Num(originalSize), st.zoom)
      overflow == MathMax(RSub(realSize, Num(containerSize)), Num(0))
      lowestValue == RDiv(RSub(realSize, Num(originalSize)), Num(2))
      highestValue == RSub(RAdd(Num(containerSize), lowestValue), realSize)
  IN [min |-> RSub(lowestValue, overflow), max |-> RAdd(highestValue, overflow)]

\* calcPos whose highest value forgets the scaled size
calcPos_noRealSize(st, pos, originalSize, containerSize) ==
  LET realSize == RMul(Num(originalSize), st.zoom)
      overflow == MathMax(RSub(realSize, Num(containerSize)), Num(0))
      lowestValue == RDiv(RSub(realSize, Num(originalSize)), Num(2))
      min == RSub(lowestValue, overflow)
      highestValue == RAdd(Num(containerSize), lowestValue)
      max == RAdd(highestValue, overflow)
  IN clamp(pos, min, max)

calcPos(st, pos, originalSize, containerSize) ==
  LET range == calcPosRange(st, originalSize, containerSize)
  IN clamp(pos, range.min, range.max)

getPosition(st, pos) ==
  IF Falsy(st.original.width) \/ Falsy(st.original.height)
  THEN pos
  ELSE [x |-> calcPos(st, pos.x, st.original.width, st.container.width),
        y |-> calcPos(st, pos.y, st.original.height, st.container.height),
        id |-> "store"]

\* getZoom that takes the smaller side of the image
getZoom_smallerSide(st, zoom) ==
  IF Falsy(st.original.width) \/ Falsy(st.original.height)
  THEN zoom
  ELSE LET imageSize == IF st.original.width < st.original.height
                        THEN st.original.width ELSE st.original.height
           containerSize == IF st.container.width > st.container.height
                            THEN st.container.width ELSE st.container.height
           min == RDiv(Num(containerSize), Num(imageSize))
       IN MathMax(zoom, min)

\* getZoom that passes the zoom through only when both sides are missing
getZoom_bothMissing(st, zoom) ==
  IF Falsy(st.original.width) /\ Falsy(st.original.height)
  THEN zoom
  ELSE LET imageSize == IF st.original.width > st.original.height
                        THEN st.original.width ELSE st.original.height
           containerSize == IF st.container.width > st.container.height
                            THEN st.container.width ELSE st.container.height
           min == RDiv(Num(containerSize), Num(imageSize))
       IN MathMax(zoom, min)

\* getZoom that returns the floor whatever the zoom
getZoom_floorOnly(st, zoom) ==
  IF Falsy(st.original.width) \/ Falsy(st.original.height)
  THEN zoom
  ELSE LET imageSize == IF st.original.width > st.original.height
                        THEN st.original.width ELSE st.original.height
           containerSize == IF st.container.width > st.container.height
                            THEN st.container.width ELSE st.container.height
       IN RDiv(Num(containerSize), Num(imageSize))

getZoom(st, zoom) ==
  IF Falsy(st.original.width) \/ Falsy(st.original.height)
  THEN zoom
  ELSE LET imageSize == IF st.original.width > st.original.height
                        THEN st.original.width ELSE st.original.height
           containerSize == IF st.container.width > st.container.height
                            THEN st.container.width ELSE st.container.height
           min == RDiv(Num(containerSize), Num(imageSize))
       IN MathMax(zoom, min)

\* one iteration of the loop of applyState
applyKey(st, key, value) ==
  CASE key = "position" -> [st EXCEPT !.position = getPosition(st, value)]
    [] key = "zoom" -> [st EXCEPT !.zoom = getZoom(st, value)]
    [] key = "original" -> [st EXCEPT !.original = value]
    [] key = "container" -> [st EXCEPT !.container = value]

RECURSIVE applyFrom(_, _, _)
applyFrom(st, ns, i) ==
  IF i > Len(ns) THEN st
  ELSE applyFrom(applyKey(st, ns[i].key, ns[i].value), ns, i + 1)

applyState(st, ns) == applyFrom(st, ns, 1)

\* a transform with the scale ahead of the translation
update_scaleFirst(st) ==
  <<"scale(", st.zoom, ")", " ", "translate(", st.position.x, "px, ",
    st.position.y, "px", ")">>

\* the image's style.transform written by update()
update(st) == <<"translate(", st.position.x, "px, ", st.position.y, "px", ") ",
                "scale(", st.zoom, ")">>

\* setState that does not re-apply the stored zoom and position
setState_noReapply(st, ns) == applyState(st, ns)

\* the state at the end of setState(newState)
setState(st, ns) ==
  LET s1 == applyState(st, ns)
      s2 == IF ~hasOwnProperty(ns, "zoom")
            THEN applyState(s1, <<[key |-> "zoom", value |-> s1.zoom]>>)
            ELSE s1
      s3 == IF ~hasOwnProperty(ns, "position")
            THEN applyState(s2, <<[key |-> "position", value |-> s2.position]>>)
            ELSE s2
  IN s3

\* what getState() hands to its caller: the closure's object itself
getState == "state"

\* the origin of the drag that onmousedown stores in dragging
onmousedown(st, e) ==
  [x |-> RSub(Num(e.x), st.position.x), y |-> RSub(Num(e.y), st.position.y)]

\* the position onmousemove passes to setState
onmousemove(drag, e, pageOffset) ==
  LET mousePos == [x |-> RAdd(Num(e.x), Num(pageOffset.x)),
                   y |-> RAdd(Num(e.y), Num(pageOffset.y))]
  IN [x |-> RSub(mousePos.x, drag.x), y |-> RSub(mousePos.y, drag.y),
      id |-> "store"]

\* the search for the container: the index of the first ancestor whose
\* position is not static, 0 (null) when there is none
RECURSIVE findContainer(_, _)
findContainer(ancestors, i) ==
  IF i > Len(ancestors) THEN 0
  ELSE IF ancestors[i] # "static" THEN i
  ELSE findContainer(ancestors, i + 1)

\* the document and the image before rogneur(image) is called
Untouched(ancestors) ==
  [ancestors |-> ancestors, instance |-> "pending", errors |-> 0,
   documentListeners |-> {}, imageListeners |-> {}, style |-> <<>>,
   draggable |-> "unset"]

\* a constructor that registers the document listeners ahead of the search
rogneur_listensFirst(d) ==
  IF findContainer(d.ancestors, 1) = 0
  THEN [d EXCEPT !.errors = @ + 1, !.instance = "none",
                 !.documentListeners = {"mousemove", "mouseup"}]
  ELSE [d EXCEPT !.style = [position |-> "absolute", top |-> "0", left |-> "0",
                            transformOrigin |-> "50% 50% 0"],
                 !.documentListeners = {"mousemove", "mouseup"},
                 !.draggable = "false",
                 !.imageListeners = {"mousedown", "load"},
                 !.instance = "live"]

\* what rogneur(image) does to the document and the image
rogneur(d) ==
  IF findContainer(d.ancestors, 1) = 0
  THEN [d EXCEPT !.errors = @ + 1, !.instance = "none"]
  ELSE [d EXCEPT !.style = [position |-> "absolute", top |-> "0", left |-> "0",
                            transformOrigin |-> "50% 50% 0"],
                 !.documentListeners = {"mousemove", "mouseup"},
                 !.draggable = "false",
                 !.imageListeners = {"mousedown", "load"},
                 !.instance = "live"]

(***************************************************************************)
(* The state machine.  The caller of the instance is either between two    *)
(* calls (pc = "idle") or has just got a call's return (pc = "returned"),  *)
(* when call and prev hold the call made and the state it started from.    *)
(***************************************************************************)
NoCall == [op |-> "none", newState |-> <<>>]
\* the closure variables of an instance that does not exist
Unallocated == [unallocated |-> TRUE]

\* the state once rogneur(image) has returned: the constructor ends with
\* updateContainerSize()
Constructed(rect) ==
  setState([position |-> [x |-> Num(0), y |-> Num(0), id |-> "store"],
            original |-> EmptyObject, container |-> EmptyObject, zoom |-> Num(1)],
           <<[key |-> "container", value |-> rect]>>)

Init ==
  /\ \E rect \in CRects : state = Constructed(rect)
  /\ transform = update(state)
  /\ loading = FALSE
  /\ dragging = Null
  /\ scroll = [x |-> 0, y |-> 0]
  /\ dom = rogneur(Untouched(<<"static", "relative">>))
  /\ pc = "idle"
  /\ call = NoCall
  /\ event = Null
  /\ prev = state

\* instance.setState(newState)
SetState(ns) ==
  /\ pc = "idle"
  /\ dom.instance = "live"
  /\ state' = setState(state, ns)
  /\ transform' = update(state')
  /\ pc' = "returned"
  /\ call' = [op |-> "setState", newState |-> ns]
  /\ prev' = state
  /\ UNCHANGED <<loading, dragging, scroll, dom, event>>

\* instance.updateContainerSize()
UpdateContainerSize(rect) ==
  LET ns == <<[key |-> "container", value |-> rect]>>
  IN /\ pc = "idle"
     /\ dom.instance = "live"
     /\ state' = setState(state, ns)
     /\ transform' = update(state')
     /\ pc' = "returned"
     /\ call' = [op |-> "updateContainerSize", newState |-> ns]
     /\ prev' = state
     /\ UNCHANGED <<loading, dragging, scroll, dom, event>>

\* a load that also writes the zoom directly
Load_resetsZoom ==
  /\ pc = "idle"
  /\ dom.instance = "live"
  /\ state' = [state EXCEPT !.original = EmptyObject, !.zoom = Num(1)]
  /\ loading' = TRUE
  /\ pc' = "returned"
  /\ call' = [op |-> "load", newState |-> <<>>]
  /\ prev' = state
  /\ UNCHANGED <<transform, dragging, scroll, dom, event>>

\* instance.load(url)
Load ==
  /\ pc = "idle"
  /\ dom.instance = "live"
  /\ state' = [state EXCEPT !.original = EmptyObject]
  /\ loading' = TRUE
  /\ pc' = "returned"
  /\ call' = [op |-> "load", newState |-> <<>>]
  /\ prev' = state
  /\ UNCHANGED <<transform, dragging, scroll, dom, event>>

\* the load event of the image, rect being the rectangle measured by
\* the handler
OnLoad(rect) ==
  LET ns == <<[key |-> "original", value |-> rect]>>
  IN /\ pc = "idle"
     /\ loading
     /\ loading' = FALSE
     /\ pc' = "returned"
     /\ prev' = state
     /\ UNCHANGED <<dragging, scroll, dom, event>>
     /\ IF "load" \in dom.imageListeners
        THEN /\ state' = setState(state, ns)
             /\ transform' = update(state')
             /\ call' = [op |-> "onload", newState |-> ns]
        ELSE /\ call' = [op |-> "onload", newState |-> <<>>]
             /\ UNCHANGED <<state, transform>>

\* a mousedown event on the image
OnMouseDown(e) ==
  /\ pc = "idle"
  /\ dragging' = IF "mousedown" \in dom.imageListeners
                 THEN onmousedown(state, e) ELSE dragging
  /\ pc' = "returned"
  /\ call' = [op |-> "onmousedown", newState |-> <<>>]
  /\ event' = e
  /\ prev' = state
  /\ UNCHANGED <<state, transform, loading, scroll, dom>>

\* the mouse events delivered: those that propose a position within MaxPan
Delivered(e) ==
  IF "mousemove" \in dom.documentListeners /\ dragging # Null
  THEN LET p == onmousemove(dragging, e, scroll)
       IN /\ Abs(p.x.n) <= MaxPan * p.x.d
          /\ Abs(p.y.n) <= MaxPan * p.y.d
  ELSE TRUE

\* a mousemove event on the document
OnMouseMove(e) ==
  /\ pc = "idle"
  /\ Delivered(e)
  /\ pc' = "returned"
  /\ event' = e
  /\ prev' = state
  /\ UNCHANGED <<loading, dragging, scroll, dom>>
  /\ IF "mousemove" \in dom.documentListeners /\ dragging # Null
     THEN LET ns == <<[key |-> "position",
                       value |-> onmousemove(dragging, e, scroll)]>>
          IN /\ state' = setState(state, ns)
             /\ transform' = update(state')
             /\ call' = [op |-> "onmousemove", newState |-> ns]
     ELSE /\ call' = [op |-> "onmousemove", newState |-> <<>>]
          /\ UNCHANGED <<state, transform>>

\* a mouseup handler that leaves dragging as it is
OnMouseUp_keepsDragging ==
  /\ pc = "idle"
  /\ pc' = "returned"
  /\ call' = [op |-> "onmouseup", newState |-> <<>>]
  /\ prev' = state
  /\ UNCHANGED <<state, transform, loading, dragging, scroll, dom, event>>

\* a mouseup event on the document
OnMouseUp ==
  /\ pc = "idle"
  /\ dragging' = IF "mouseup" \in dom.documentListeners THEN Null ELSE dragging
  /\ pc' = "returned"
  /\ call' = [op |-> "onmouseup", newState |-> <<>>]
  /\ prev' = state
  /\ UNCHANGED <<state, transform, loading, scroll, dom, event>>

\* the user scrolls the window
Scroll(s) ==
  /\ pc = "idle"
  /\ s # scroll
  /\ scroll' = s
  /\ UNCHANGED <<state, transform, loading, dragging, dom, pc, call, event, prev>>

\* the host gives the image a src without load(url)
SetSrc ==
  /\ pc = "idle"
  /\ ~loading
  /\ loading' = TRUE
  /\ pc' = "returned"
  /\ call' = [op |-> "setSrc", newState |-> <<>>]
  /\ prev' = state
  /\ UNCHANGED <<state, transform, dragging, scroll, dom, event>>

\* rogneur(image), rect being the rectangle of the container found
Rogneur(rect) ==
  /\ pc = "idle"
  /\ dom.instance = "pending"
  /\ dom' = rogneur(dom)
  /\ pc' = "returned"
  /\ call' = [op |-> "rogneur", newState |-> <<>>]
  /\ prev' = state
  /\ UNCHANGED <<loading, scroll, event>>
  /\ IF dom'.instance = "live"
     THEN /\ state' = Constructed(rect)
          /\ transform' = update(state')
          /\ dragging' = Null
     ELSE UNCHANGED <<state, transform, dragging>>

\* the caller assigns to a field of the value getState() returns
WriteReturned(e) ==
  /\ pc = "idle"
  /\ state' = IF getState = "state"
              THEN [state EXCEPT ![e.key] = e.value]
              ELSE state
  /\ pc' = "returned"
  /\ call' = [op |-> "writeReturned", newState |-> <<e>>]
  /\ prev' = state
  /\ UNCHANGED <<transform, loading, dragging, scroll, dom, event>>

\* the caller assigns to x and y of the position object it passed to
\* setState, which the store still holds
MutatePosition(p) ==
  /\ pc = "idle"
  /\ state.position.id = "caller"
  /\ state' = [state EXCEPT !.position = p]
  /\ pc' = "returned"
  /\ call' = [op |-> "mutatePosition", newState |-> <<>>]
  /\ prev' = state
  /\ UNCHANGED <<transform, loading, dragging, scroll, dom, event>>

\* the caller goes on to its next call
Resume ==
  /\ pc = "returned"
  /\ pc' = "idle"
  /\ call' = NoCall
  /\ event' = Null
  /\ prev' = state
  /\ UNCHANGED <<state, transform, loading, dragging, scroll, dom>>

\* the objects a caller may pass next: a call starts only once the call
\* before it has returned and has been looked at
NewStatesNow == IF pc = "idle" THEN NewStates ELSE {}

Next ==
  \/ \E ns \in NewStatesNow : SetState(ns)
  \/ \E rect \in CRects : UpdateContainerSize(rect)
  \/ Resume

Spec == Init /\ [][Next]_vars

OneKey == {ns \in NewStates : Len(ns) <= 1}

\* a caller that loads images and passes one key at a time
NextLoad ==
  \/ \E ns \in OneKey : SetState(ns)
  \/ \E rect \in CRects : UpdateContainerSize(rect)
  \/ Load
  \/ \E rect \in ORects : OnLoad(rect)
  \/ Resume

SpecLoad == Init /\ [][NextLoad]_vars

\* the one-key calls that pan, or zoom in
PanOrZoomIn ==
  {ns \in OneKey :
     \A i \in DOMAIN ns :
       \/ ns[i].key = "position"
       \/ ns[i].key = "zoom" /\ RLe(Num(1), ns[i].value)}

\* the mouse, the window and the image's load event, with a caller that
\* pans, zooms in, loads images and resizes the container
NextDrag ==
  \/ \E ns \in PanOrZoomIn : SetState(ns)
  \/ \E rect \in CRects : UpdateContainerSize(rect)
  \/ Load
  \/ \E rect \in ORects : OnLoad(rect)
  \/ \E e \in MouseAt : OnMouseDown(e)
  \/ \E e \in MouseAt : OnMouseMove(e)
  \/ OnMouseUp
  \/ \E s \in Scrolls : Scroll(s)
  \/ Resume

SpecDrag == Init /\ [][NextDrag]_vars

\* from before rogneur(image) is called, whatever the ancestors of the image
InitUntouched ==
  /\ state = Unallocated
  /\ transform = <<>>
  /\ loading = FALSE
  /\ dragging = Unallocated
  /\ scroll = [x |-> 0, y |-> 0]
  /\ \E ancestors \in Ancestries : dom = Untouched(ancestors)
  /\ pc = "idle"
  /\ call = NoCall
  /\ event = Null
  /\ prev = state

NextConstruct ==
  \/ \E rect \in CRects : Rogneur(rect)
  \/ SetSrc
  \/ \E rect \in ORects : OnLoad(rect)
  \/ \E e \in MouseAt : OnMouseDown(e)
  \/ \E e \in MouseAt : OnMouseMove(e)
  \/ OnMouseUp
  \/ \E s \in Scrolls : Scroll(s)
  \/ Resume

SpecConstruct == InitUntouched /\ [][NextConstruct]_vars

\* the sides of the images and containers of the sized instances
Sides == {250, 500, 1000, 2000}
Sizes == {Rect(w, h) : w, h \in Sides}

\* the one-key calls that pan or zoom
PanOrZoom ==
  {ns \in OneKey : \A i \in DOMAIN ns : ns[i].key \in {"position", "zoom"}}

\* from an instance built in a container of any size in Sizes whose load
\* event has delivered an original of any size in Sizes
InitSized ==
  /\ \E c, o \in Sizes :
       state = setState(Constructed(c), <<[key |-> "original", value |-> o]>>)
  /\ transform = update(state)
  /\ loading = FALSE
  /\ dragging = Null
  /\ scroll = [x |-> 0, y |-> 0]
  /\ dom = rogneur(Untouched(<<"static", "relative">>))
  /\ pc = "idle"
  /\ call = NoCall
  /\ event = Null
  /\ prev = state

NextSized ==
  \/ \E ns \in PanOrZoom : SetState(ns)
  \/ Resume

SpecSized == InitSized /\ [][NextSized]_vars

\* a caller that also writes to the objects it shares with the instance,
\* and passes one key at a time
NextShared ==
  \/ \E ns \in OneKey : SetState(ns)
  \/ \E e \in Entries : WriteReturned(e)
  \/ \E p \in PosReq : MutatePosition(p)
  \/ Resume

SpecShared == Init /\ [][NextShared]_vars

(***************************************************************************)
(* Vocabulary of the properties, written from their statements.            *)
(***************************************************************************)
Axes == {"x", "y"}
OriginalAxis(st, a) == IF a = "x" THEN st.original.width ELSE st.original.height
ContainerAxis(st, a) == IF a = "x" THEN st.container.width ELSE st.container.height
Pan(st, a) == IF a = "x" THEN st.position.x ELSE st.position.y

\* the image has been measured
Measured(st) == st.original.width > 0 /\ st.original.height > 0
\* both sizes are known
BothKnown(st) == Measured(st) /\ st.container.width > 0 /\ st.container.height > 0

Larger(size) == IF size.width >= size.height THEN size.width ELSE size.height
ZoomFloor(st) == Rat(Larger(st.container), Larger(st.original))

Scaled(st, a) == RMul(Num(OriginalAxis(st, a)), st.zoom)
Overflow(st, a) ==
  IF RLt(Num(ContainerAxis(st, a)), Scaled(st, a))
  THEN RSub(Scaled(st, a), Num(ContainerAxis(st, a)))
  ELSE Num(0)
CenterOffset(st, a) == RDiv(RSub(Scaled(st, a), Num(OriginalAxis(st, a))), Num(2))
PanMin(st, a) == RSub(CenterOffset(st, a), Overflow(st, a))
PanMax(st, a) ==
  RAdd(RSub(RAdd(Num(ContainerAxis(st, a)), CenterOffset(st, a)), Scaled(st, a)),
       Overflow(st, a))
InRange(st, a) == RLe(PanMin(st, a), Pan(st, a)) /\ RLe(Pan(st, a), PanMax(st, a))

\* the left (top) and right (bottom) margins between container and image
MarginBefore(st, a, pan) == RSub(pan, CenterOffset(st, a))
MarginAfter(st, a, pan) ==
  RSub(Num(ContainerAxis(st, a)), RAdd(MarginBefore(st, a, pan), Scaled(st, a)))

\* a legal state: unmeasured, or zoom at or above the floor and both pan
\* coordinates inside their ranges for the stored zoom
Legal(st) ==
  Measured(st) => /\ RLe(ZoomFloor(st), st.zoom)
                  /\ \A a \in Axes : InRange(st, a)

\* the value of a state, whichever objects hold it
Value(st) == <<st.position.x, st.position.y, st.zoom, st.original, st.container>>

\* a call that went through setState has just returned
SetStateOps == {"setState", "updateContainerSize", "onload"}
AfterSetState == pc = "returned" /\ call.op \in SetStateOps
Carries(ns, key) == \E i \in DOMAIN ns : ns[i].key = key
ValueFor(ns, key) == (CHOOSE e \in {ns[i] : i \in DOMAIN ns} : e.key = key).value
\* the argument of the call had exactly this one key
OnlyKey(key) == Len(call.newState) = 1 /\ call.newState[1].key = key
Arg(key) == ValueFor(call.newState, key)

\* the nearest value to v in [lo, hi]
Nearest(v, lo, hi) == IF RLt(v, lo) THEN lo ELSE IF RLt(hi, v) THEN hi ELSE v

\* sizes first, then zoom against the merged sizes, then position against
\* that zoom and the merged sizes
Reference(st, ns) ==
  LET merged == [st EXCEPT
                   !.original = IF Carries(ns, "original")
                                THEN ValueFor(ns, "original") ELSE st.original,
                   !.container = IF Carries(ns, "container")
                                 THEN ValueFor(ns, "container") ELSE st.container]
      reqZoom == IF Carries(ns, "zoom") THEN ValueFor(ns, "zoom") ELSE st.zoom
      zoomed == [merged EXCEPT
                   !.zoom = IF Measured(merged) /\ RLt(reqZoom, ZoomFloor(merged))
                            THEN ZoomFloor(merged) ELSE reqZoom]
      reqPos == IF Carries(ns, "position") THEN ValueFor(ns, "position") ELSE st.position
  IN [zoomed EXCEPT
        !.position.x = IF Measured(merged)
                       THEN Nearest(reqPos.x, PanMin(zoomed, "x"), PanMax(zoomed, "x"))
                       ELSE reqPos.x,
        !.position.y = IF Measured(merged)
                       THEN Nearest(reqPos.y, PanMin(zoomed, "y"), PanMax(zoomed, "y"))
                       ELSE reqPos.y]

(***************************************************************************)
(* C1 - Zoom floor: after every setState call, if the stored original and  *)
(* container both have positive width and height then the stored zoom is   *)
(* at least max(container) / max(original).                                *)
(***************************************************************************)
C1_ZoomFloor ==
  (AfterSetState /\ BothKnown(state)) => RLe(ZoomFloor(state), state.zoom)

(***************************************************************************)
(* C2 - Pan containment: after every setState call, if both sizes are      *)
(* known then position.x and position.y lie in the range computed from the *)
(* zoom and sizes stored at the end of the call.                           *)
(***************************************************************************)
C2_PanContainment ==
  (AfterSetState /\ BothKnown(state)) => \A a \in Axes : InRange(state, a)

(***************************************************************************)
(* C3 - Cover: the zoom floor makes the scaled image cover the container   *)
(* on every axis, and after every setState call with both sizes known the  *)
(* scaled, translated image rectangle contains the container rectangle on  *)
(* both axes.                                                              *)
(***************************************************************************)
C3_Cover ==
  (AfterSetState /\ BothKnown(state)) =>
    /\ \A a \in Axes :
         RLe(Num(ContainerAxis(state, a)),
             RMul(Num(OriginalAxis(state, a)), getZoom(state, Num(0))))
    /\ \A a \in Axes :
         /\ RLe(MarginBefore(state, a, Pan(state, a)), Num(0))
         /\ RLe(Num(ContainerAxis(state, a)),
                RAdd(MarginBefore(state, a, Pan(state, a)), Scaled(state, a)))

\* on this axis the larger of scaled image and container lies around the
\* other when the image is translated by pan
Around(st, a, pan) ==
  IF RLe(Num(ContainerAxis(st, a)), Scaled(st, a))
  THEN RLe(MarginBefore(st, a, pan), Num(0)) /\ RLe(MarginAfter(st, a, pan), Num(0))
  ELSE RLe(Num(0), MarginBefore(st, a, pan)) /\ RLe(Num(0), MarginAfter(st, a, pan))

\* C3 as amended: the zoom floor is the zoom at which the larger side of
\* the scaled image equals the larger side of the container, which need not
\* cover the container on the other axis; every position the position
\* handler returns for the stored zoom and sizes (looked at whenever the
\* caller is between two calls), and every position stored by a setState
\* call whose argument carries no position key, puts on each axis the
\* larger of scaled image and container around the other.
C3_LargerSideCover ==
  BothKnown(state) =>
    /\ RMul(Num(Larger(state.original)), getZoom(state, Num(0)))
         = Num(Larger(state.container))
    /\ pc = "idle" =>
         \A p \in PosReq : \A a \in Axes :
           Around(state, a, Pan([position |-> getPosition(state, p)], a))
    /\ (AfterSetState /\ ~Carries(call.newState, "position")) =>
         \A a \in Axes : Around(state, a, Pan(state, a))

\* a setState call left the zoom at its floor and the image narrower than
\* the container on the x axis, at a position the handler returns
C3_Witness ==
  /\ AfterSetState /\ BothKnown(state)
  /\ state.zoom = getZoom(state, Num(0))
  /\ ~Carries(call.newState, "position")
  /\ RLt(Scaled(state, "x"), Num(ContainerAxis(state, "x")))
  /\ RLe(Num(ContainerAxis(state, "y")), Scaled(state, "y"))
  /\ \A a \in Axes : Around(state, a, Pan(state, a))

(***************************************************************************)
(* C4 - Fixed processing order: a setState call commits the reference      *)
(* result (sizes, then zoom, then position), whatever the order of the     *)
(* keys of its argument.                                                   *)
(***************************************************************************)
C4_FixedOrder ==
  (pc = "returned" /\ call.op = "setState") =>
    Value(state) = Value(Reference(prev, call.newState))

(***************************************************************************)
(* C5 - Idempotence: from a legal state, setState({}) leaves position,     *)
(* zoom, original and container unchanged in value.                        *)
(***************************************************************************)
C5_Idempotence ==
  (pc = "returned" /\ call.op = "setState" /\ call.newState = <<>> /\ Legal(prev)) =>
    Value(state) = Value(prev)

\* setState({}) has returned from a legal measured state that is not the
\* state of a fresh instance
C5_Witness ==
  /\ pc = "returned" /\ call.op = "setState" /\ call.newState = <<>>
  /\ BothKnown(prev) /\ Legal(prev)
  /\ prev.zoom # Num(1) /\ prev.position.x # Num(0)
  /\ Value(state) = Value(prev)

(***************************************************************************)
(* C6 - Resize re-clamp: from a legal measured state, a setState call that *)
(* carries only container, or only original, leaves a state in which the   *)
(* zoom floor and the pan containment hold for the new sizes.              *)
(***************************************************************************)
C6_ResizeReclamp ==
  (/\ AfterSetState
   /\ OnlyKey("container") \/ OnlyKey("original")
   /\ Measured(prev) /\ Legal(prev)) => Legal(state)

\* a pan at its maximum bound was moved by a shrink of the container
C6_Witness ==
  /\ AfterSetState /\ OnlyKey("container")
  /\ BothKnown(prev) /\ Legal(prev) /\ BothKnown(state)
  /\ prev.position.x = PanMax(prev, "x")
  /\ state.container.width < prev.container.width
  /\ state.position.x # prev.position.x
  /\ state.position.x = PanMax(state, "x")

(***************************************************************************)
(* C7 - Unmeasured pass-through: while the stored original has width 0 or  *)
(* height 0 (or is unset), setState({zoom: z}) stores exactly z and        *)
(* setState({position: p}) stores exactly p.x and p.y.                     *)
(***************************************************************************)
C7_PassThrough ==
  (pc = "returned" /\ call.op = "setState" /\ ~Measured(prev)) =>
    /\ OnlyKey("zoom") => state.zoom = Arg("zoom")
    /\ OnlyKey("position") => /\ state.position.x = Arg("position").x
                              /\ state.position.y = Arg("position").y

\* a zoom below the floor of the container was stored while the image had
\* width 0
C7_Witness ==
  /\ pc = "returned" /\ call.op = "setState" /\ OnlyKey("zoom")
  /\ prev.original.width = 0 /\ prev.container.width > 0
  /\ Arg("zoom") = Rat(1, 10) /\ state.zoom = Rat(1, 10)
  /\ prev.zoom # Rat(1, 10)

(***************************************************************************)
(* C8 - Snapshot isolation: writing to the value getState returned, or to *)
(* a position object passed to setState earlier, does not change the       *)
(* stored state.                                                           *)
(***************************************************************************)
C8_SnapshotIsolation ==
  (pc = "returned" /\ call.op \in {"writeReturned", "mutatePosition"}) =>
    Value(state) = Value(prev)

(***************************************************************************)
(* C9 - Exact clamping: with the image measured, setState({zoom: z})       *)
(* stores z when z is at or above the floor and the floor otherwise;       *)
(* setState({position: p}) stores each coordinate when it is inside its    *)
(* range and the nearest bound otherwise, the range being that of the zoom *)
(* and sizes stored when the call is made, which from a legal state is     *)
(* also that of the end of the call.  For image 2000x1000 in container     *)
(* 500x500: zoom 0.1 is stored as 0.25 and, at zoom 0.25, every x is       *)
(* stored as -750 and y = 1000 as -125.                                    *)
(***************************************************************************)
C9_ExactClamping ==
  (pc = "returned" /\ call.op = "setState" /\ Measured(prev)) =>
    /\ OnlyKey("zoom") =>
         state.zoom = IF RLe(ZoomFloor(prev), Arg("zoom"))
                      THEN Arg("zoom") ELSE ZoomFloor(prev)
    /\ OnlyKey("position") =>
         \A a \in Axes :
           /\ Pan(state, a) = Nearest(Pan([position |-> Arg("position")], a),
                                      PanMin(prev, a), PanMax(prev, a))
           /\ Legal(prev) =>
                Pan(state, a) = Nearest(Pan([position |-> Arg("position")], a),
                                        PanMin(state, a), PanMax(state, a))
    /\ (prev.original = Rect(2000, 1000) /\ prev.container = Rect(500, 500)) =>
         /\ (OnlyKey("zoom") /\ Arg("zoom") = Rat(1, 10)) => state.zoom = Rat(1, 4)
         /\ (OnlyKey("position") /\ prev.zoom = Rat(1, 4)) =>
              /\ state.position.x = Num(-750)
              /\ Arg("position").y = Num(1000) => state.position.y = Num(-125)

\* image 2000x1000 in container 500x500 at zoom 0.25: a requested position
\* (-1000, 1000) was stored as (-750, -125)
C9_Witness ==
  /\ pc = "returned" /\ call.op = "setState" /\ OnlyKey("position")
  /\ prev.original = Rect(2000, 1000) /\ prev.container = Rect(500, 500)
  /\ prev.zoom = Rat(1, 4)
  /\ Arg("position").x = Num(-1000) /\ Arg("position").y = Num(1000)
  /\ state.position.x = Num(-750) /\ state.position.y = Num(-125)

(***************************************************************************)
(* C10 - Centered when there is no overflow: on an axis where the scaled   *)
(* image does not exceed the container, every pan value of the legal range *)
(* places the image with equal margins on both sides.                      *)
(***************************************************************************)
C10_Centered ==
  (AfterSetState /\ BothKnown(state) /\ Legal(state)) =>
    \A a \in Axes :
      (RLe(Scaled(state, a), Num(ContainerAxis(state, a))) /\ InRange(state, a)) =>
        MarginBefore(state, a, Pan(state, a)) = MarginAfter(state, a, Pan(state, a))

\* C10 as amended: on such an axis every pan value calcPos returns (looked
\* at whenever the caller is between two calls), and every pan value stored by a setState call whose argument carries no
\* position key, keeps the scaled image inside the container: both margins
\* are non-negative; they need not be equal.
C10_InsideContainer ==
  BothKnown(state) =>
    \A a \in Axes :
      RLe(Scaled(state, a), Num(ContainerAxis(state, a))) =>
        /\ pc = "idle" =>
             \A p \in PosReq :
               LET r == calcPos(state, Pan([position |-> p], a),
                                OriginalAxis(state, a), ContainerAxis(state, a))
               IN /\ RLe(Num(0), MarginBefore(state, a, r))
                  /\ RLe(Num(0), MarginAfter(state, a, r))
        /\ (AfterSetState /\ ~Carries(call.newState, "position")) =>
             /\ RLe(Num(0), MarginBefore(state, a, Pan(state, a)))
             /\ RLe(Num(0), MarginAfter(state, a, Pan(state, a)))

\* a setState call without position key stored, on the y axis where the
\* scaled image is smaller than the container, a pan with unequal margins
C10_Witness ==
  /\ AfterSetState /\ ~Carries(call.newState, "position") /\ BothKnown(state)
  /\ RLt(Scaled(state, "y"), Num(ContainerAxis(state, "y")))
  /\ RLe(Num(0), MarginBefore(state, "y", Pan(state, "y")))
  /\ RLe(Num(0), MarginAfter(state, "y", Pan(state, "y")))
  /\ MarginBefore(state, "y", Pan(state, "y")) # MarginAfter(state, "y", Pan(state, "y"))

(***************************************************************************)
(* The drag session.                                                       *)
(***************************************************************************)
\* a handler or a call has just returned
After(op) == pc = "returned" /\ call.op = op
\* the handler made a setState call
MadeSetStateCall == call.newState # <<>>
\* this step is the handler or call op, from start to return
Handles(op) == pc = "idle" /\ pc' = "returned" /\ call'.op = op
\* the pointer position of the last mouse event
Pointer(a) == IF a = "x" THEN Num(event.x) ELSE Num(event.y)
Anchor(a) == IF a = "x" THEN dragging.x ELSE dragging.y

\* C11: after a press at P0 while the stored position is S0 the anchor is
\* P0 - S0, and every move at P before the release proposes to setState the
\* position P - anchor = S0 + (P - P0) on each axis, whatever the scroll offset
\* of the window; a move at the press position proposes S0.
C11_DragProposal ==
  /\ After("onmousedown") =>
       \A a \in Axes : Anchor(a) = RSub(Pointer(a), Pan(prev, a))
  /\ (After("onmousemove") /\ MadeSetStateCall) =>
       \A a \in Axes :
         Pan([position |-> Arg("position")], a) = RSub(Pointer(a), Anchor(a))

\* what one step may do to the drag session
C12_Step ==
  /\ (dom.instance = "pending" /\ dom'.instance = "live") => dragging' = Null
  /\ dom.instance = "live" =>
       /\ Handles("onmouseup") => dragging' = Null
       /\ Handles("onmousedown") => dragging' # Null
       /\ (dragging # Null /\ dragging' = Null) => Handles("onmouseup")
       /\ (dragging = Null /\ dragging' # Null) => Handles("onmousedown")
       /\ (Handles("onmousemove") /\ dragging = Null) =>
            /\ state' = state
            /\ transform' = transform
            /\ call'.newState = <<>>

\* C12: the session is Idle (dragging is null) at construction and after
\* every release, Dragging from a press until the next release, and a move
\* received while Idle leaves the state and the transform unchanged and
\* makes no setState call.
C12_DragSession == [][C12_Step]_vars

\* a move is received while Idle, after a drag that moved the image ended
C12_Witness ==
  /\ After("onmousemove") /\ ~MadeSetStateCall
  /\ dom.instance = "live" /\ dragging = Null
  /\ state.position.x # Num(0)

\* C13: load(url) empties the stored original and nothing else, so that a
\* zoom or a position passed to setState before the image is measured is
\* stored as passed; when the load event delivers an original with positive
\* width and height, the zoom floor and the pan containment hold as soon as
\* its handler returns, whatever was stored in between.
C13_LoadThenMeasure ==
  /\ After("load") =>
       /\ state.original = EmptyObject
       /\ state.position = prev.position /\ state.zoom = prev.zoom
       /\ state.container = prev.container
  /\ (After("setState") /\ prev.original = EmptyObject /\ OnlyKey("zoom")) =>
       state.zoom = Arg("zoom")
  /\ (After("setState") /\ prev.original = EmptyObject /\ OnlyKey("position")) =>
       \A a \in Axes : Pan(state, a) = Pan([position |-> Arg("position")], a)
  /\ (After("onload") /\ Measured(state)) => Legal(state)

\* the load event measures an image whose zoom, stored while the original
\* was empty, is below the new floor and whose position is outside the new
\* range: the handler raised the one and moved the other
C13_Witness ==
  /\ After("onload") /\ Measured(state) /\ BothKnown(state)
  /\ prev.original = EmptyObject
  /\ RLt(prev.zoom, ZoomFloor(state))
  /\ state.zoom = ZoomFloor(state)
  /\ \E a \in Axes : Pan(prev, a) # Pan(state, a)

\* C14: whenever a call or a handler of the instance has returned (a direct
\* setState, a drag move, the load event, updateContainerSize, load, press,
\* release), the image's transform is the translation by the stored
\* position followed by the scale by the stored zoom.
C14_RenderFollowsState ==
  transform = <<"translate(", state.position.x, "px, ", state.position.y, "px",
                ") ", "scale(", state.zoom, ")">>

\* a drag move has changed the position of an image that is zoomed in
C14_Witness ==
  /\ After("onmousemove") /\ MadeSetStateCall
  /\ \E a \in Axes : Pan(state, a) # Pan(prev, a)
  /\ state.position.x # Num(0)
  /\ state.zoom = Num(2)

\* the range of axis a that calcPos computes in state st
Range(st, a) == calcPosRange(st, OriginalAxis(st, a), ContainerAxis(st, a))

\* C15: for every original and container with positive dimensions and every
\* zoom at or above the floor, the range that calcPos computes on each axis
\* has min <= max, so clamp returns each bound for itself and never has to
\* resolve an inverted range.
C15_RangeNeverEmpty ==
  (BothKnown(state) /\ RLe(ZoomFloor(state), state.zoom)) =>
    \A a \in Axes :
      LET r == Range(state, a)
      IN /\ RLe(r.min, r.max)
         /\ calcPos(state, r.min, OriginalAxis(state, a), ContainerAxis(state, a)) = r.min
         /\ calcPos(state, r.max, OriginalAxis(state, a), ContainerAxis(state, a)) = r.max

\* at the floor itself, the image overflows the container on one axis and
\* is smaller than it on the other
C15_Witness ==
  /\ After("setState") /\ BothKnown(state)
  /\ state.zoom = ZoomFloor(state)
  /\ RLt(Num(ContainerAxis(state, "x")), Scaled(state, "x"))
  /\ RLt(Scaled(state, "y"), Num(ContainerAxis(state, "y")))
  /\ \A a \in Axes : RLt(Range(state, a).min, Range(state, a).max)

\* the operation that has returned made a setState call
ViaSetState ==
  \/ AfterSetState
  \/ After("onmousemove") /\ MadeSetStateCall

\* C16: every change to the stored state made by an operation or an event
\* handler of the instance (load, updateContainerSize, setState, the load
\* event, press, move, release) is made by a setState call, none by a
\* direct write.
C16_SingleEntryPoint ==
  (pc = "returned" /\ state # prev) =>
    ViaSetState /\ state = setState(prev, call.newState)

\* C16 as amended: every change to position, zoom and container is made by
\* a setState call; the one direct write is load(url), which empties the
\* original and nothing else without calling setState, and it leaves the
\* state and the transform that setState({original: {}}) would have left.
C16_EntryPointExceptLoad ==
  (pc = "returned" /\ state # prev) =>
    \/ ViaSetState /\ state = setState(prev, call.newState)
    \/ /\ After("load")
       /\ state = [prev EXCEPT !.original = EmptyObject]
       /\ state = setState(prev, <<[key |-> "original", value |-> EmptyObject]>>)
       /\ transform = update(state)

\* load(url) has emptied the original of a measured image that is zoomed in
C16_Witness ==
  /\ After("load") /\ Measured(prev)
  /\ state.original = EmptyObject
  /\ state.zoom = Num(2)

\* no ancestor of the image has a position other than static
NoContainer == \A i \in DOMAIN dom.ancestors : dom.ancestors[i] = "static"

\* C17: when no ancestor of the image has a position other than static,
\* rogneur(image) signals the error once and returns no instance; it has
\* registered no listener on the document or the image, changed no style
\* and no attribute of the image and created no state, and this stays so
\* whatever mouse and load events follow.
C17_ConstructionFailure ==
  (NoContainer /\ dom.instance # "pending") =>
    /\ dom.instance = "none"
    /\ dom.errors = 1
    /\ dom.documentListeners = {} /\ dom.imageListeners = {}
    /\ dom.style = <<>> /\ dom.draggable = "unset"
    /\ state = Unallocated /\ dragging = Unallocated
    /\ transform = <<>>

\* the load event of the image fires after the construction has failed
C17_Witness ==
  /\ NoContainer /\ dom.instance = "none"
  /\ After("onload")

\* C18: a setState call whose argument has no zoom key never lowers the
\* stored zoom: it stores the larger of the stored zoom and the floor of
\* the sizes at the end of the call (the stored zoom itself while the image
\* is unmeasured), so a zoom raised by an enlarged container stays where it
\* is when the container is restored.
C18_ZoomOnlyRises ==
  (AfterSetState /\ ~Carries(call.newState, "zoom")) =>
    /\ RLe(prev.zoom, state.zoom)
    /\ Measured(state) => state.zoom = MathMax(prev.zoom, ZoomFloor(state))
    /\ ~Measured(state) => state.zoom = prev.zoom

\* the container is brought back to a smaller size after the zoom had been
\* raised to the floor of the larger one: the zoom stays above the new floor
C18_Witness ==
  /\ AfterSetState /\ OnlyKey("container")
  /\ BothKnown(state) /\ BothKnown(prev)
  /\ Larger(state.container) < Larger(prev.container)
  /\ prev.zoom = ZoomFloor(prev)
  /\ state.zoom = prev.zoom
  /\ RLt(ZoomFloor(state), state.zoom)
====
